---- MODULE Spec2Model ----
(***************************************************************************)
(* Model of the nox session test_cookiecutter of noxfile.py: the pipeline  *)
(* resolve inputs -> clean stale output -> generate -> patch -> lock ->    *)
(* install -> discover library -> run the verification tools.              *)
(*                                                                         *)
(* Strings of the program are sequences of one-character strings, so that  *)
(* the path and text functions the code calls (abspath, basename, dirname, *)
(* str.replace, str.startswith, int) are computed, not assumed.            *)
(* A manifest line is a sequence of text chunks.                           *)
(***************************************************************************)
EXTENDS Integers, Sequences, FiniteSets, TLC

(***************************************************************************)
(* Bounds of the model.                                                    *)
(***************************************************************************)
\* Replay-file names are made of at most this many chunks of NameChunks.
MaxChunks == 3

(***************************************************************************)
(* Text helpers: Python str and posixpath functions.                       *)
(***************************************************************************)
Slash == "/"

startswith(s, prefix) ==
    /\ Len(s) >= Len(prefix)
    /\ SubSeq(s, 1, Len(prefix)) = prefix

RECURSIVE replace(_, _, _)
\* str.replace(old, new): every non-overlapping occurrence, left to right.
replace(s, old, new) ==
    IF s = <<>> THEN <<>>
    ELSE IF startswith(s, old)
         THEN new \o replace(SubSeq(s, Len(old) + 1, Len(s)), old, new)
         ELSE <<Head(s)>> \o replace(Tail(s), old, new)

\* Index of the last "/" of p, 0 when there is none (str.rfind + 1).
rfindSlash(p) ==
    LET idx == {i \in 1..Len(p) : p[i] = Slash}
    IN  IF idx = {} THEN 0 ELSE CHOOSE i \in idx : \A j \in idx : j <= i

basename(p) == SubSeq(p, rfindSlash(p) + 1, Len(p))

RECURSIVE rstripSlash(_)
rstripSlash(s) ==
    IF s # <<>> /\ s[Len(s)] = Slash THEN rstripSlash(SubSeq(s, 1, Len(s) - 1))
    ELSE s

dirname(p) ==
    LET head == SubSeq(p, 1, rfindSlash(p))
    IN  IF head # <<>> /\ (\E i \in 1..Len(head) : head[i] # Slash)
        THEN rstripSlash(head)
        ELSE head

RECURSIVE split(_)
\* str.split("/"): the components between slashes, empty ones included.
split(s) ==
    LET idx == {i \in 1..Len(s) : s[i] = Slash}
    IN  IF idx = {} THEN <<s>>
        ELSE LET i == CHOOSE k \in idx : \A j \in idx : k <= j
             IN  <<SubSeq(s, 1, i - 1)>> \o split(SubSeq(s, i + 1, Len(s)))

RECURSIVE joinComps(_)
joinComps(comps) ==
    IF comps = <<>> THEN <<>>
    ELSE IF Len(comps) = 1 THEN comps[1]
    ELSE comps[1] \o <<Slash>> \o joinComps(Tail(comps))

DotDot == <<".", ".">>

RECURSIVE normComps(_, _, _)
\* The loop of posixpath.normpath over the components.
normComps(comps, acc, rooted) ==
    IF comps = <<>> THEN acc
    ELSE LET comp == Head(comps)
         IN  IF comp = <<>> \/ comp = <<".">>
             THEN normComps(Tail(comps), acc, rooted)
             ELSE IF \/ comp # DotDot
                     \/ (~rooted /\ acc = <<>>)
                     \/ (acc # <<>> /\ acc[Len(acc)] = DotDot)
                  THEN normComps(Tail(comps), Append(acc, comp), rooted)
                  ELSE IF acc # <<>>
                       THEN normComps(Tail(comps), SubSeq(acc, 1, Len(acc) - 1), rooted)
                       ELSE normComps(Tail(comps), acc, rooted)

normpath(path) ==
    IF path = <<>> THEN <<".">>
    ELSE LET rooted == startswith(path, <<Slash>>)
             two    == startswith(path, <<Slash, Slash>>)
                       /\ ~startswith(path, <<Slash, Slash, Slash>>)
             body   == joinComps(normComps(split(path), <<>>, rooted))
             res    == IF rooted
                       THEN (IF two THEN <<Slash, Slash>> ELSE <<Slash>>) \o body
                       ELSE body
         IN  IF res = <<>> THEN <<".">> ELSE res

pathjoin(a, b) ==
    IF startswith(b, <<Slash>>) THEN b
    ELSE IF a = <<>> \/ a[Len(a)] = Slash THEN a \o b
    ELSE a \o <<Slash>> \o b

abspath(path, dir) ==
    IF startswith(path, <<Slash>>) THEN normpath(path)
    ELSE normpath(pathjoin(dir, path))


Space == " "

RECURSIVE strip(_)
\* str.strip() for blanks, as int() applies it to its argument.
strip(s) ==
    IF s # <<>> /\ Head(s) = Space THEN strip(Tail(s))
    ELSE IF s # <<>> /\ s[Len(s)] = Space THEN strip(SubSeq(s, 1, Len(s) - 1))
    ELSE s

Digits == <<"0", "1", "2", "3", "4", "5", "6", "7", "8", "9">>

IsDigit(c) == \E d \in 1..10 : Digits[d] = c

DigitVal(c) == (CHOOSE d \in 1..10 : Digits[d] = c) - 1

RECURSIVE decimal(_, _)
decimal(ds, acc) ==
    IF ds = <<>> THEN acc ELSE decimal(Tail(ds), 10 * acc + DigitVal(Head(ds)))

\* int(text): blanks stripped, an optional sign, then decimal digits;
\* anything else raises ValueError (ok = FALSE).
int(text) ==
    LET t      == strip(text)
        signed == t # <<>> /\ Head(t) \in {"+", "-"}
        ds     == IF signed THEN Tail(t) ELSE t
    IN  IF ds # <<>> /\ (\A i \in 1..Len(ds) : IsDigit(ds[i]))
        THEN [ok |-> TRUE,
              val |-> IF signed /\ Head(t) = "-" THEN 0 - decimal(ds, 0)
                      ELSE decimal(ds, 0)]
        ELSE [ok |-> FALSE, val |-> 0]

(***************************************************************************)
(* Constants of noxfile.py.                                                *)
(***************************************************************************)
\* "./cookiecutter/tap-template"
DefaultTemplate ==
    <<".", "/", "c", "o", "o", "k", "i", "e", "c", "u", "t", "t", "e", "r", "/", "t", "a", "p", "-", "t", "e", "m", "p", "l", "a", "t", "e">>

\* "./e2e-tests/cookiecutters/tap-rest-api_key-github.json"
DefaultReplay ==
    <<".", "/", "e", "2", "e", "-", "t", "e", "s", "t", "s", "/", "c", "o", "o", "k", "i", "e", "c", "u", "t", "t", "e", "r", "s", "/", "t", "a", "p", "-", "r", "e", "s", "t", "-", "a", "p", "i", "_", "k", "e", "y", "-", "g", "i", "t", "h", "u", "b", ".", "j", "s", "o", "n">>

DefaultArgs == <<DefaultTemplate, DefaultReplay>>

\* "/tmp"
cc_build_path == <<"/", "t", "m", "p">>

JsonSuffix == <<".", "j", "s", "o", "n">>

TapPrefix == <<"t", "a", "p">>

TargetPrefix == <<"t", "a", "r", "g", "e", "t">>

\* The manifest the patcher edits, and the files the patch and lock steps add.
PyprojectToml == <<"p", "y", "p", "r", "o", "j", "e", "c", "t", ".", "t", "o", "m", "l">>

PyprojectBak == <<"p", "y", "p", "r", "o", "j", "e", "c", "t", ".", "t", "o", "m", "l", ".", "b", "a", "k">>

PoetryLock == <<"p", "o", "e", "t", "r", "y", ".", "l", "o", "c", "k">>

\* Text chunks of the sed expression 's|singer-sdk =.*|singer-sdk = \{ path = "SDK", develop = true \}|'
DepName == "singer-sdk"

DepAssign == " ="

PathOpen == " { path = \""

PathClose == "\", develop = true }"

(***************************************************************************)
(* The environment a run starts in.                                        *)
(***************************************************************************)
\* "/repo": the directory nox is started in.
InitialCwd == <<"/", "r", "e", "p", "o">>

\* "/x/tpl/a", "t.json": positional arguments other than the defaults.
TemplateArgs == {<<"/", "x", "/", "t", "p", "l", "/", "a">>}

ReplayArgs == {<<"t", ".", "j", "s", "o", "n">>}

FlagArgs == {<<"0">>, <<"1">>, <<"2">>, <<" ", "1">>, <<"x">>}

ExtraArgs == {<<"e">>}

PosArgs ==
    {<<>>}
    \cup {<<t>> : t \in TemplateArgs}
    \cup {<<t, r>> : t \in TemplateArgs, r \in ReplayArgs}
    \cup {<<t, r, f>> : t \in TemplateArgs, r \in ReplayArgs, f \in FlagArgs}
    \cup {<<t, r, f, e>> : t \in TemplateArgs, r \in ReplayArgs, f \in FlagArgs, e \in ExtraArgs}

Kinds == {"none", "file", "dir"}

\* Names of immediate children of a generated project.
TapDir == <<"t", "a", "p", "_", "r", "e", "s", "t">>

TargetDir == <<"t", "a", "r", "g", "e", "t", "_", "x">>

TestsDir == <<"t", "e", "s", "t", "s">>

HiddenTap == <<".", "t", "a", "p">>

OldFile == <<"o", "l", "d", ".", "t", "x", "t">>

ChildSets ==
    { {TestsDir}, {TestsDir, HiddenTap}, {TapDir, TestsDir}, {TargetDir},
      {TapDir, TargetDir, TestsDir} }

\* Manifest lines, as sequences of text chunks.
PythonLine == <<"python", " =", " \"^3.7\"">>

SdkLine == <<DepName, DepAssign, " \"^0.14\"">>

CommentLine == <<"# ", DepName, DepAssign, " old">>

OtherLine == <<"requests", " =", " \"^2.28\"">>

NoFile == <<"<no file>">>

Manifests ==
    { <<PythonLine, SdkLine, OtherLine>>,
      <<PythonLine, OtherLine>>,
      <<CommentLine, SdkLine>>,
      NoFile }

NoProj == [exists |-> FALSE]

\* A directory tree: its children, the lines of its pyproject.toml, the
\* lines of pyproject.toml.bak, and the tools that have rewritten its files.
StaleProj ==
    [exists |-> TRUE,
     files |-> {[name |-> OldFile, by |-> "stale"], [name |-> TapDir, by |-> "stale"]},
     manifest |-> <<PythonLine, SdkLine>>,
     bak |-> NoFile,
     rewritten |-> {}]

\* cc_build_path and the root directory exist on every machine.
ExistingDir ==
    [exists |-> TRUE, files |-> {}, manifest |-> NoFile, bak |-> NoFile, rewritten |-> {}]

SystemDirs == {cc_build_path, <<Slash>>}

Unbound == <<"<unbound>">>

NoResult == [outcome |-> "running", at |-> "none", error |-> "none", tool |-> "none"]

\* No earlier invocation.
NoFirst == [seen |-> FALSE, steps |-> <<>>, tree |-> NoProj]


(***************************************************************************)
(* State.  Every run (process) has its own arguments, locals, working      *)
(* directory, log of spawned commands and result; the file system is       *)
(* shared.                                                                 *)
(***************************************************************************)
VARIABLES
    pc,             \* position of each run in test_cookiecutter
    posargs,        \* session.posargs
    args,           \* args
    tap_template,   \* tap_template
    replay_file,    \* replay_file
    sdk_dir,        \* sdk_dir
    cc_test_output, \* cc_test_output
    library_name,   \* library_name, Unbound until the discovery loop assigns it
    cwd,            \* os.getcwd()
    log,            \* the subprocesses spawned so far, in order
    result,         \* how the run ended
    printed,        \* the messages the run printed before returning early
    fsKind,         \* what exists at the template and replay paths
    proj,           \* the directory tree at each output path
    first,          \* what an earlier invocation with the same arguments did
    e2e_output      \* cc_test_output of the session do_something

locals == <<args, tap_template, replay_file, sdk_dir, cc_test_output, library_name>>

vars == <<pc, posargs, args, tap_template, replay_file, sdk_dir, cc_test_output,
          library_name, cwd, log, result, printed, fsKind, proj, first, e2e_output>>

Procs == DOMAIN pc

\* cc_output_dir and cc_test_output of a replay argument.
cc_output_dir(replayArg) == replace(basename(replayArg), JsonSuffix, <<>>)

cc_test_output_of(replayArg) == cc_build_path \o <<Slash>> \o cc_output_dir(replayArg)

\* args = session.posargs or [defaults]
EffectiveArgs(pa) == IF pa = <<>> THEN DefaultArgs ELSE pa

InputPaths ==
    {abspath(a, InitialCwd) : a \in TemplateArgs \cup ReplayArgs \cup {DefaultTemplate, DefaultReplay}}

OutPaths == {cc_test_output_of(r) : r \in ReplayArgs \cup {DefaultReplay}}

\* The input and output paths a list of arguments refers to.
UsedInputs(pa) ==
    LET a == EffectiveArgs(pa)
    IN  {abspath(a[i], InitialCwd) : i \in {j \in 1..2 : j <= Len(a)}}

UsedOutputs(pa) ==
    LET a == EffectiveArgs(pa)
    IN  IF Len(a) >= 2 THEN {cc_test_output_of(a[2])} ELSE {}

exists(path) == path \in DOMAIN fsKind /\ fsKind[path] # "none"

isfile(path) == path \in DOMAIN fsKind /\ fsKind[path] = "file"

\* The directory a path leads to: "/tmp/", "/tmp/." and "/tmp" are the same.
projAt(path) == IF normpath(path) \in DOMAIN proj THEN proj[normpath(path)] ELSE NoProj

\* q is the directory n or lies below it.
Under(q, n) ==
    \/ q = n
    \/ startswith(q, IF n = <<Slash>> THEN n ELSE n \o <<Slash>>)

\* Variant: rm removes pyproject.toml only.
Removed_ManifestOnly(path) ==
    [q \in DOMAIN proj |->
        IF Under(q, normpath(path)) /\ proj[q].exists
        THEN [proj[q] EXCEPT !.manifest = NoFile]
        ELSE proj[q]]

\* The file system after rm -fr path has removed the tree at path.
Removed(path) ==
    [q \in DOMAIN proj |-> IF Under(q, normpath(path)) THEN NoProj ELSE proj[q]]

\* rm refuses an operand whose last component is "." or "..".
rmRefuses(path) == basename(path) \in {<<".">>, DotDot}

\* The trees of a file system whose output directories are as f says.
WithSystemDirs(f) ==
    [q \in DOMAIN f \cup SystemDirs |-> IF q \in SystemDirs THEN ExistingDir ELSE f[q]]

InitOf(P) ==
    /\ pc = [p \in P |-> "resolve"]
    /\ posargs \in [P -> PosArgs]
    /\ args = [p \in P |-> Unbound]
    /\ tap_template = [p \in P |-> Unbound]
    /\ replay_file = [p \in P |-> Unbound]
    /\ sdk_dir = [p \in P |-> Unbound]
    /\ cc_test_output = [p \in P |-> Unbound]
    /\ library_name = [p \in P |-> Unbound]
    /\ cwd = [p \in P |-> InitialCwd]
    /\ log = [p \in P |-> <<>>]
    /\ result = [p \in P |-> NoResult]
    /\ printed = [p \in P |-> <<>>]
    /\ first = [p \in P |-> NoFirst]
    /\ e2e_output = [p \in P |-> Unbound]
    /\ fsKind \in [InputPaths -> Kinds]
    /\ \A path \in InputPaths :
          (\A p \in P : path \notin UsedInputs(posargs[p])) => fsKind[path] = "none"
    /\ \E f \in [OutPaths -> {NoProj, StaleProj}] :
          /\ \A path \in OutPaths :
                (\A p \in P : path \notin UsedOutputs(posargs[p])) => f[path] = NoProj
          /\ proj = WithSystemDirs(f)

Init == InitOf({1})

(***************************************************************************)
(* How a step ends.                                                        *)
(***************************************************************************)
Goto(p, label) ==
    /\ pc' = [pc EXCEPT ![p] = label]
    /\ UNCHANGED result

\* "return 0" and falling off the end of the session function: nox records
\* a session whose function returns as successful.
Return(p) ==
    /\ pc' = [pc EXCEPT ![p] = "done"]
    /\ result' = [result EXCEPT ![p] =
                    [outcome |-> "success", at |-> pc[p], error |-> "none", tool |-> "none"]]

\* An exception leaves the session function: nox records the session as failed.
Raise(p, err, tool) ==
    /\ pc' = [pc EXCEPT ![p] = "done"]
    /\ result' = [result EXCEPT ![p] =
                    [outcome |-> "failed", at |-> pc[p], error |-> err, tool |-> tool]]

\* session.run / session.install start a subprocess and wait for its exit
\* status.
Spawn(p, tool, target, status) ==
    log' = [log EXCEPT ![p] =
              Append(@, [tool |-> tool, target |-> target, status |-> status])]

\* The exit statuses of a subprocess: 0, or some other one.
Statuses == {0, 1}

(***************************************************************************)
(* Input Resolver: lines 180-202.                                          *)
(***************************************************************************)
Echo(p, message) == printed' = [printed EXCEPT ![p] = Append(@, message)]

\* Variant: every argument count other than two is rejected.
WrongArgCount_NotTwo(a) == Len(a) # 2

\* if len(args) == 1
WrongArgCount(a) == Len(a) = 1

\* if not os.path.exists(tap_template)
TemplateNotFound(path) == ~exists(path)

\* Variant: the replay file is not looked at.
ReplayNotFound_Unchecked(path) == FALSE

\* if not os.path.isfile(replay_file)
ReplayNotFound(path) == ~isfile(path)

Resolve(p) ==
    /\ pc[p] = "resolve"
    /\ LET a  == EffectiveArgs(posargs[p])
       IN  /\ args' = [args EXCEPT ![p] = a]
           /\ IF WrongArgCount(a)
              THEN /\ Echo(p, "ERROR:")
                   /\ Return(p)
                   /\ UNCHANGED <<tap_template, replay_file, sdk_dir, cc_test_output>>
              ELSE LET tt == abspath(a[1], cwd[p])
                       rr == abspath(a[2], cwd[p])
                   IN  /\ tap_template' = [tap_template EXCEPT ![p] = tt]
                       /\ replay_file' = [replay_file EXCEPT ![p] = rr]
                       /\ IF TemplateNotFound(tt)
                          THEN /\ Echo(p, "Tap template folder not found")
                               /\ Return(p)
                               /\ UNCHANGED <<sdk_dir, cc_test_output>>
                          ELSE IF ReplayNotFound(rr)
                          THEN /\ Echo(p, "Replay file not found")
                               /\ Return(p)
                               /\ UNCHANGED <<sdk_dir, cc_test_output>>
                          ELSE /\ sdk_dir' = [sdk_dir EXCEPT ![p] = dirname(dirname(tt))]
                               /\ cc_test_output' =
                                     [cc_test_output EXCEPT ![p] = cc_test_output_of(a[2])]
                               /\ UNCHANGED printed
                               /\ Goto(p, "clean")
    /\ UNCHANGED <<posargs, library_name, cwd, log, fsKind, proj>>

(***************************************************************************)
(* Stale-Output Cleaner: lines 204-205.                                    *)
(***************************************************************************)
\* Variant: the cleaner leaves an existing output directory in place.
Clean_Keep(p) ==
    /\ pc[p] = "clean"
    /\ UNCHANGED <<log, proj>>
    /\ Goto(p, "install_sdk")
    /\ UNCHANGED <<posargs, locals, cwd, printed, fsKind>>

Clean(p) ==
    /\ pc[p] = "clean"
    /\ IF projAt(cc_test_output[p]).exists
       THEN \E status \in Statuses :
               /\ rmRefuses(cc_test_output[p]) => status # 0
               /\ Spawn(p, "rm", cc_test_output[p], status)
               /\ IF status = 0
                  THEN /\ proj' = Removed(cc_test_output[p])
                       /\ Goto(p, "install_sdk")
                  ELSE /\ UNCHANGED proj
                       /\ Raise(p, "CommandFailed", "rm")
       ELSE /\ UNCHANGED <<log, proj>>
            /\ Goto(p, "install_sdk")
    /\ UNCHANGED <<posargs, locals, cwd, printed, fsKind>>

(***************************************************************************)
(* session.install(".") and session.install("cookiecutter", "pythonsed"):  *)
(* lines 207-208.                                                          *)
(***************************************************************************)
\* A subprocess that touches nothing of the model: it exits with status 0,
\* or with another status and session.run raises CommandFailed.
\* Variant: the exit status is not looked at (success_codes accepts all).
RunPlain_AnyStatus(p, tool, target, next) ==
    \E status \in Statuses :
        /\ Spawn(p, tool, target, status)
        /\ Goto(p, next)

RunPlain(p, tool, target, next) ==
    \E status \in Statuses :
        /\ Spawn(p, tool, target, status)
        /\ IF status = 0 THEN Goto(p, next) ELSE Raise(p, "CommandFailed", tool)

InstallSdk(p) ==
    /\ pc[p] = "install_sdk"
    /\ RunPlain(p, "install .", <<>>, "install_tools")
    /\ UNCHANGED <<posargs, locals, cwd, printed, fsKind, proj>>

InstallTools(p) ==
    /\ pc[p] = "install_tools"
    /\ RunPlain(p, "install cookiecutter pythonsed", <<>>, "generate")
    /\ UNCHANGED <<posargs, locals, cwd, printed, fsKind, proj>>

(***************************************************************************)
(* Scaffold Generator: lines 210-213.                                      *)
(***************************************************************************)
Rendered(children, manifest) ==
    [exists |-> TRUE,
     files |-> {[name |-> n, by |-> "cookiecutter"] : n \in children},
     manifest |-> manifest,
     bak |-> NoFile,
     rewritten |-> {}]

\* cookiecutter renders the project under cc_build_path, in the directory the
\* replay file names: cc_test_output ("here") or another one ("elsewhere").
\* It refuses to render into a directory that exists, and the directory it
\* renders is a child of cc_build_path.
Generate(p) ==
    /\ pc[p] = "generate"
    /\ \/ /\ Spawn(p, "cookiecutter", cc_build_path, 1)
          /\ UNCHANGED proj
          /\ Raise(p, "CommandFailed", "cookiecutter")
       \/ /\ ~projAt(cc_test_output[p]).exists
          /\ normpath(cc_test_output[p]) \in DOMAIN proj \ SystemDirs
          /\ Spawn(p, "cookiecutter", cc_build_path, 0)
          /\ \E children \in ChildSets, manifest \in Manifests :
                proj' = [proj EXCEPT ![normpath(cc_test_output[p])] =
                           Rendered(children, manifest)]
          /\ Goto(p, "chdir")
       \/ /\ Spawn(p, "cookiecutter", cc_build_path, 0)
          /\ UNCHANGED proj
          /\ Goto(p, "chdir")
    /\ UNCHANGED <<posargs, locals, cwd, printed, fsKind>>

\* Variant: the directory is entered without looking whether it exists.
Chdir_Unchecked(p) ==
    /\ pc[p] = "chdir"
    /\ cwd' = [cwd EXCEPT ![p] = cc_test_output[p]]
    /\ Goto(p, "patch")
    /\ UNCHANGED <<posargs, locals, log, printed, fsKind, proj>>

\* Variant: the working directory is left alone.
Chdir_Stay(p) ==
    /\ pc[p] = "chdir"
    /\ IF projAt(cc_test_output[p]).exists
       THEN /\ UNCHANGED cwd
            /\ Goto(p, "patch")
       ELSE /\ UNCHANGED cwd
            /\ Raise(p, "FileNotFoundError", "none")
    /\ UNCHANGED <<posargs, locals, log, printed, fsKind, proj>>

\* os.chdir(cc_test_output)
Chdir(p) ==
    /\ pc[p] = "chdir"
    /\ IF projAt(cc_test_output[p]).exists
       THEN /\ cwd' = [cwd EXCEPT ![p] = cc_test_output[p]]
            /\ Goto(p, "patch")
       ELSE /\ UNCHANGED cwd
            /\ Raise(p, "FileNotFoundError", "none")
    /\ UNCHANGED <<posargs, locals, log, printed, fsKind, proj>>

(***************************************************************************)
(* Dependency Patcher: lines 215-218.                                      *)
(***************************************************************************)
\* Where the regular expression "singer-sdk =.*" first matches in a line,
\* 0 when it does not match.  The expression is not anchored.
matchAt(line) ==
    LET idx == {i \in 1..(Len(line) - 1) : line[i] = DepName /\ line[i + 1] = DepAssign}
    IN  IF idx = {} THEN 0 ELSE CHOOSE i \in idx : \A j \in idx : i <= j

\* s|singer-sdk =.*|singer-sdk = \{ path = "<sdk>", develop = true \}| on one line
sedLine(line, sdk) ==
    IF matchAt(line) = 0 THEN line
    ELSE SubSeq(line, 1, matchAt(line) - 1)
         \o <<DepName, DepAssign, PathOpen>> \o sdk \o <<PathClose>>

sed(manifest, sdk) == [i \in 1..Len(manifest) |-> sedLine(manifest[i], sdk)]

\* pythonsed -i.bak ... pyproject.toml, in the working directory
Patch(p) ==
    /\ pc[p] = "patch"
    /\ LET here == projAt(cwd[p])
       IN  \/ /\ here.exists /\ here.manifest # NoFile
              /\ Spawn(p, "pythonsed", PyprojectToml, 0)
              /\ proj' = [proj EXCEPT ![normpath(cwd[p])] =
                            [here EXCEPT
                               !.manifest = sed(here.manifest, sdk_dir[p]),
                               !.bak = here.manifest,
                               !.files = @ \cup {[name |-> PyprojectBak, by |-> "pythonsed"]}]]
              /\ Goto(p, "lock")
           \/ /\ Spawn(p, "pythonsed", PyprojectToml, 1)
              /\ UNCHANGED proj
              /\ Raise(p, "CommandFailed", "pythonsed")
    /\ UNCHANGED <<posargs, locals, cwd, printed, fsKind>>

\* Variant: a failing lock does not stop the run.
Lock_Lenient(p) ==
    /\ pc[p] = "lock"
    /\ \E status \in Statuses : Spawn(p, "poetry lock", <<>>, status)
    /\ Goto(p, "install")
    /\ UNCHANGED <<posargs, locals, cwd, printed, fsKind, proj>>

\* poetry lock
Lock(p) ==
    /\ pc[p] = "lock"
    /\ LET here == projAt(cwd[p])
       IN  \/ /\ here.exists
              /\ Spawn(p, "poetry lock", <<>>, 0)
              /\ proj' = [proj EXCEPT ![normpath(cwd[p])] =
                            [here EXCEPT !.files = @ \cup {[name |-> PoetryLock, by |-> "poetry"]}]]
              /\ Goto(p, "install")
           \/ /\ Spawn(p, "poetry lock", <<>>, 1)
              /\ UNCHANGED proj
              /\ Raise(p, "CommandFailed", "poetry lock")
    /\ UNCHANGED <<posargs, locals, cwd, printed, fsKind>>

\* poetry install
PoetryInstall(p) ==
    /\ pc[p] = "install"
    /\ RunPlain(p, "poetry install", <<>>, "discover")
    /\ UNCHANGED <<posargs, locals, cwd, printed, fsKind, proj>>

(***************************************************************************)
(* Library Discovery: lines 220-222.                                       *)
(***************************************************************************)
\* glob.glob(f'{os.getcwd()}/*'): the children whose name has no leading dot.
globStar(dir) ==
    {f.name : f \in {g \in projAt(dir).files : ~startswith(g.name, <<".">>)}}

isLibrary(name) == startswith(name, TapPrefix) \/ startswith(name, TargetPrefix)

\* The loop assigns library_name at every matching child, so the last match
\* in the order glob lists the directory stays; that order is the file
\* system's, so any match may be the last.
Discover(p) ==
    /\ pc[p] = "discover"
    /\ IF ~projAt(cwd[p]).exists
       THEN /\ UNCHANGED library_name
            /\ Raise(p, "FileNotFoundError", "none")
       ELSE LET matches == {n \in globStar(cwd[p]) : isLibrary(n)}
            IN  /\ IF matches = {}
                   THEN UNCHANGED library_name
                   ELSE \E last \in matches :
                           library_name' = [library_name EXCEPT ![p] = last]
                /\ Goto(p, "black")
    /\ UNCHANGED <<posargs, args, tap_template, replay_file, sdk_dir, cc_test_output,
                   cwd, log, printed, fsKind, proj>>

(***************************************************************************)
(* Verification Runner: lines 224-230.                                     *)
(***************************************************************************)
\* session.run("poetry", "run", tool, library_name, external=True).  Reading
\* library_name while it is unbound raises UnboundLocalError before the
\* subprocess starts.
\* Variant: library_name starts as a bound value, so the tools run when no
\* child matched.
RunTool_Bound(p, tool, next) ==
    /\ RunPlain(p, tool, library_name[p], next)
    /\ UNCHANGED <<posargs, locals, cwd, printed, fsKind, proj>>

\* black and isort are started without --check / --check-only: they rewrite
\* the files of their target that are not formatted as they want them.
Rewrites(tool) == tool \in {"black", "isort"}

\* What a tool leaves of the tree in the working directory.
ToolEffect(p, tool) ==
    IF Rewrites(tool) /\ projAt(cwd[p]).exists
    THEN \/ UNCHANGED proj
         \/ proj' = [proj EXCEPT ![normpath(cwd[p])].rewritten = @ \cup {tool}]
    ELSE UNCHANGED proj

RunTool(p, tool, next) ==
    /\ IF library_name[p] = Unbound
       THEN /\ UNCHANGED <<log, proj>>
            /\ Raise(p, "UnboundLocalError", "none")
       ELSE /\ RunPlain(p, tool, library_name[p], next)
            /\ ToolEffect(p, tool)
    /\ UNCHANGED <<posargs, locals, cwd, printed, fsKind>>

Black(p) == pc[p] = "black" /\ RunTool(p, "black", "isort")

Isort(p) == pc[p] = "isort" /\ RunTool(p, "isort", "flake8")

Flake8(p) == pc[p] = "flake8" /\ RunTool(p, "flake8", "mypy")

Mypy(p) == pc[p] = "mypy" /\ RunTool(p, "mypy", "lint")

\* Variant: every flag other than 0 asks for the aggregate lint.
WantsLint_NonZero(a) == Len(a) < 3 \/ int(a[3]).val # 0

\* len(args) < 3 or int(args[2]) == 1
WantsLint(a) == Len(a) < 3 \/ int(a[3]).val = 1

\* if len(args) < 3 or int(args[2]) == 1: session.run("poetry", "run", "tox", "-e", "lint")
Lint(p) ==
    /\ pc[p] = "lint"
    /\ IF Len(args[p]) >= 3 /\ ~int(args[p][3]).ok
       THEN /\ UNCHANGED log
            /\ Raise(p, "ValueError", "none")
       ELSE IF WantsLint(args[p])
       THEN \E status \in Statuses :
               /\ Spawn(p, "tox lint", <<>>, status)
               /\ IF status = 0 THEN Return(p) ELSE Raise(p, "CommandFailed", "tox lint")
       ELSE /\ UNCHANGED log
            /\ Return(p)
    /\ UNCHANGED <<posargs, locals, cwd, printed, fsKind, proj>>

\* One step of the session function.
Step(p) ==
        \/ Resolve(p)
        \/ Clean(p)
        \/ InstallSdk(p)
        \/ InstallTools(p)
        \/ Generate(p)
        \/ Chdir(p)
        \/ Patch(p)
        \/ Lock(p)
        \/ PoetryInstall(p)
        \/ Discover(p)
        \/ Black(p)
        \/ Isort(p)
        \/ Flake8(p)
        \/ Mypy(p)
        \/ Lint(p)

\* One invocation of test_cookiecutter.
Next ==
    \E p \in Procs :
        /\ Step(p)
        /\ UNCHANGED <<first, e2e_output>>

Spec == Init /\ [][Next]_vars

(***************************************************************************)
(* The session do_something of e2e-tests/cookiecutters/noxfile.py, up to   *)
(* the derivation of its output path: lines 48-56.                         *)
(***************************************************************************)
\* cc_build_path = "/tmp" of the e2e noxfile
e2e_cc_build_path == <<"/", "t", "m", "p">>

JsonText == <<"j", "s", "o", "n">>

\* os.path.basename(session.posargs[1]).replace("json", "")
e2e_cc_output_dir(replayArg) == replace(basename(replayArg), JsonText, <<>>)

\* (cc_build_path + "/" + cc_output_dir).replace(".", "")
e2e_cc_test_output(replayArg) ==
    replace(e2e_cc_build_path \o <<Slash>> \o e2e_cc_output_dir(replayArg), <<".">>, <<>>)

\* print("INPUT IS WRONG!!!"); return 0
InputIsWrong == <<"<input is wrong>">>

DoSomething(p) ==
    /\ e2e_output[p] = Unbound
    /\ e2e_output' =
          [e2e_output EXCEPT ![p] =
              IF posargs[p] # <<>> /\ Len(posargs[p]) = 2
              THEN e2e_cc_test_output(posargs[p][2])
              ELSE InputIsWrong]
    /\ UNCHANGED <<pc, posargs, locals, cwd, log, result, printed, fsKind, proj, first>>

(***************************************************************************)
(* Replay files of many names: the specification the path derivations are  *)
(* checked under.  Template and replay file exist, the output directory    *)
(* may; the run goes through the resolver and the cleaner.                 *)
(***************************************************************************)
NameChunks == {<<"a">>, <<".">>, <<"-">>, JsonText, JsonSuffix}

RECURSIVE concat(_)
concat(chunks) == IF chunks = <<>> THEN <<>> ELSE Head(chunks) \o concat(Tail(chunks))

\* File names: "." and ".." name directories, never a replay file.
Names ==
    {concat(cs) : cs \in UNION {[1..n -> NameChunks] : n \in 1..MaxChunks}}
    \ {<<".">>, DotDot}

\* "d/": the directory of the replay files.
ReplayDir == <<"d", "/">>

NamedPosArgs ==
    {<<>>} \cup {<<t, ReplayDir \o n>> : t \in TemplateArgs, n \in Names}

InitNames ==
    /\ pc = [p \in {1} |-> "resolve"]
    /\ posargs \in [{1} -> NamedPosArgs]
    /\ args = [p \in {1} |-> Unbound]
    /\ tap_template = [p \in {1} |-> Unbound]
    /\ replay_file = [p \in {1} |-> Unbound]
    /\ sdk_dir = [p \in {1} |-> Unbound]
    /\ cc_test_output = [p \in {1} |-> Unbound]
    /\ library_name = [p \in {1} |-> Unbound]
    /\ cwd = [p \in {1} |-> InitialCwd]
    /\ log = [p \in {1} |-> <<>>]
    /\ result = [p \in {1} |-> NoResult]
    /\ printed = [p \in {1} |-> <<>>]
    /\ first = [p \in {1} |-> NoFirst]
    /\ e2e_output = [p \in {1} |-> Unbound]
    /\ LET a == EffectiveArgs(posargs[1])
           tt == abspath(a[1], InitialCwd)
           rr == abspath(a[2], InitialCwd)
           out == normpath(cc_test_output_of(a[2]))
       IN  /\ fsKind = [path \in {tt, rr} |-> IF path = tt THEN "dir" ELSE "file"]
           /\ \E f \in [{out} \ SystemDirs -> {NoProj, StaleProj}] :
                 proj = WithSystemDirs(f)

NextNames ==
    \E p \in Procs :
        \/ /\ Resolve(p) \/ Clean(p)
           /\ UNCHANGED <<first, e2e_output>>
        \/ DoSomething(p)

SpecNames == InitNames /\ [][NextNames]_vars

(***************************************************************************)
(* Two invocations in succession with the same arguments.  The template    *)
(* engine, the tools and the file system are deterministic: a step of the  *)
(* second invocation that finds the tree the same step of the first one    *)
(* found ends as it ended then.                                            *)
(***************************************************************************)
TwiceArgs ==
    {<<>>}
    \cup {<<t, r>> : t \in TemplateArgs, r \in ReplayArgs}
    \cup {<<t, r, f>> : t \in TemplateArgs, r \in ReplayArgs, f \in {<<"0">>, <<"1">>}}

\* cc_test_output of the arguments of run p.
OutputOf(p) == cc_test_output_of(EffectiveArgs(posargs[p])[2])

projAtNext(path) == IF normpath(path) \in DOMAIN proj' THEN proj'[normpath(path)] ELSE NoProj

\* The template is a directory and the replay file is a file.
InitTwice ==
    /\ InitOf({1})
    /\ posargs[1] \in TwiceArgs
    /\ LET a == EffectiveArgs(posargs[1])
       IN  /\ fsKind[abspath(a[1], InitialCwd)] = "dir"
           /\ fsKind[abspath(a[2], InitialCwd)] = "file"

\* What a step found and how it ended.
Observation(p) ==
    [at |-> pc[p],
     before |-> projAt(OutputOf(p)),
     after |-> projAtNext(OutputOf(p)),
     to |-> pc'[p],
     result |-> result'[p],
     library_name |-> library_name'[p]]

\* cookiecutter rendered into a directory other than cc_test_output; that
\* directory is still there at the next invocation and cookiecutter, run
\* without --overwrite-if-exists, then refuses to render.
RenderedElsewhere(o) == o.at = "generate" /\ o.to = "chdir" /\ ~o.after.exists

Repeats(p) ==
    \A i \in 1..Len(first[p].steps) :
        LET o == first[p].steps[i]
        IN  (o.at = pc[p] /\ o.before = projAt(OutputOf(p)))
            => IF RenderedElsewhere(o)
               THEN pc'[p] = "done" /\ result'[p].outcome = "failed"
               ELSE /\ projAtNext(OutputOf(p)) = o.after
                    /\ pc'[p] = o.to
                    /\ result'[p] = o.result
                    /\ library_name'[p] = o.library_name

FirstRun(p) ==
    /\ ~first[p].seen
    /\ Step(p)
    /\ first' = [first EXCEPT ![p].steps = Append(@, Observation(p))]
    /\ UNCHANGED e2e_output

\* The session is started again, in a new process, after the first ended.
Rerun(p) ==
    /\ pc[p] = "done"
    /\ ~first[p].seen
    /\ first' = [first EXCEPT ![p].seen = TRUE, ![p].tree = projAt(OutputOf(p))]
    /\ pc' = [pc EXCEPT ![p] = "resolve"]
    /\ args' = [args EXCEPT ![p] = Unbound]
    /\ tap_template' = [tap_template EXCEPT ![p] = Unbound]
    /\ replay_file' = [replay_file EXCEPT ![p] = Unbound]
    /\ sdk_dir' = [sdk_dir EXCEPT ![p] = Unbound]
    /\ cc_test_output' = [cc_test_output EXCEPT ![p] = Unbound]
    /\ library_name' = [library_name EXCEPT ![p] = Unbound]
    /\ cwd' = [cwd EXCEPT ![p] = InitialCwd]
    /\ log' = [log EXCEPT ![p] = <<>>]
    /\ result' = [result EXCEPT ![p] = NoResult]
    /\ printed' = [printed EXCEPT ![p] = <<>>]
    /\ UNCHANGED <<posargs, fsKind, proj, e2e_output>>

SecondRun(p) ==
    /\ first[p].seen
    /\ Step(p)
    /\ Repeats(p)
    /\ UNCHANGED <<first, e2e_output>>

NextTwice ==
    \E p \in Procs :
        \/ FirstRun(p)
        \/ Rerun(p)
        \/ SecondRun(p)

SpecTwice == InitTwice /\ [][NextTwice]_vars

(***************************************************************************)
(* Two invocations at the same time, with the same arguments: each run is  *)
(* a process of its own, the file system under cc_build_path is shared,    *)
(* and the steps of the two runs interleave in any order.  The template    *)
(* renders a tap project.                                                  *)
(***************************************************************************)
ConcArgs == {<<t, r>> : t \in TemplateArgs, r \in ReplayArgs}

TapProject == Rendered({TapDir, TestsDir}, <<PythonLine, SdkLine, OtherLine>>)

InitConc ==
    /\ InitOf({1, 2})
    /\ posargs[1] \in ConcArgs
    /\ posargs[2] = posargs[1]
    /\ LET a == EffectiveArgs(posargs[1])
       IN  /\ fsKind[abspath(a[1], InitialCwd)] = "dir"
           /\ fsKind[abspath(a[2], InitialCwd)] = "file"

RendersTapProject(p) ==
    (pc[p] = "generate" /\ projAtNext(OutputOf(p)) # projAt(OutputOf(p)))
    => projAtNext(OutputOf(p)) = TapProject

NextConc ==
    \E p \in Procs :
        /\ Step(p)
        /\ RendersTapProject(p)
        /\ UNCHANGED <<first, e2e_output>>

SpecConc == InitConc /\ [][NextConc]_vars

(***************************************************************************)
(* Vocabulary of the properties.                                           *)
(***************************************************************************)
VerificationOrder == <<"black", "isort", "flake8", "mypy", "tox lint">>

IsVerification(e) == \E k \in 1..Len(VerificationOrder) : VerificationOrder[k] = e.tool

\* The verification tools a run has started, in the order it started them.
ToolsRun(p) ==
    LET v == SelectSeq(log[p], IsVerification)
    IN  [i \in 1..Len(v) |-> v[i].tool]

Ran(p, tool) == \E i \in 1..Len(log[p]) : log[p][i].tool = tool

RanOk(p, tool) == \E i \in 1..Len(log[p]) : log[p][i].tool = tool /\ log[p][i].status = 0

Failed(p) == result[p].outcome = "failed"

StoppedInResolver(p) == pc[p] = "done" /\ result[p].at = "resolve"

\* The project directory of a run, once the resolver has derived its path.
Generated(p) == projAt(cc_test_output[p])

\* The same after a step.
GeneratedNext(p) ==
    IF cc_test_output'[p] \in DOMAIN proj' THEN proj'[cc_test_output'[p]] ELSE NoProj

\* The children of the generated project whose name starts with tap or target.
LibraryChildren(p) ==
    {f.name : f \in {g \in Generated(p).files :
                        \/ (Len(g.name) >= 3 /\ SubSeq(g.name, 1, 3) = TapPrefix)
                        \/ (Len(g.name) >= 6 /\ SubSeq(g.name, 1, 6) = TargetPrefix)}}

(***************************************************************************)
(* C1: the verification tools start in the order black, isort, flake8,     *)
(* mypy, tox lint; a tool that exits non-zero is the last subprocess of    *)
(* the run, and the run's failure names that tool.                         *)
(***************************************************************************)
C1_FailFastInOrder ==
    \A p \in Procs :
        /\ \E k \in 0..Len(VerificationOrder) :
              ToolsRun(p) = SubSeq(VerificationOrder, 1, k)
        /\ \A i \in 1..Len(log[p]) :
              (IsVerification(log[p][i]) /\ log[p][i].status # 0)
              => /\ i = Len(log[p])
                 /\ pc[p] = "done"
                 /\ Failed(p)
                 /\ result[p].error = "CommandFailed"
                 /\ result[p].tool = log[p][i].tool

C1_Witness ==
    /\ ToolsRun(1) = <<"black", "isort", "flake8">>
    /\ result[1].tool = "flake8"

(***************************************************************************)
(* C2: a run ends in success only if every stage succeeded, and a run that *)
(* stops in the Input Resolver ends in failure.                            *)
(***************************************************************************)
AllStagesSucceeded(p) ==
    /\ \A i \in 1..Len(log[p]) : log[p][i].status = 0
    /\ \A t \in {"cookiecutter", "pythonsed", "poetry lock", "poetry install",
                 "black", "isort", "flake8", "mypy"} : RanOk(p, t)

C2_SuccessOnlyIfAllStages ==
    \A p \in Procs :
        /\ result[p].outcome = "success" => AllStagesSucceeded(p)
        /\ StoppedInResolver(p) => Failed(p)

(***************************************************************************)
(* C3: when the replay-file path is not a regular file, no step of the run *)
(* spawns a subprocess, changes the working directory or touches the file  *)
(* system, and the run ends in the Input Resolver.                         *)
(***************************************************************************)
ReplayArgMissing(p) ==
    LET a == EffectiveArgs(posargs[p])
    IN  /\ Len(a) >= 2
        /\ fsKind[abspath(a[2], InitialCwd)] # "file"

C3_NoReplayNoEffect ==
    [][\A p \in Procs :
          ReplayArgMissing(p)
          => /\ log'[p] = <<>>
             /\ cwd'[p] = InitialCwd
             /\ proj' = proj
             /\ fsKind' = fsKind
             /\ pc'[p] \in {"resolve", "done"}
             /\ pc'[p] = "done" => result'[p].at = "resolve"]_vars

C3_Witness ==
    /\ Len(posargs[1]) >= 2
    /\ StoppedInResolver(1)
    /\ ReplayArgMissing(1)
    /\ fsKind[tap_template[1]] = "dir"
    /\ proj[cc_test_output_of(posargs[1][2])] = StaleProj

InputsPresent(p) ==
    LET a == EffectiveArgs(posargs[p])
    IN  /\ Len(a) >= 2
        /\ fsKind[abspath(a[1], InitialCwd)] # "none"
        /\ fsKind[abspath(a[2], InitialCwd)] = "file"

C4_WitnessMany ==
    /\ Len(posargs[1]) = 4
    /\ Ran(1, "cookiecutter")

(***************************************************************************)
(* C5: when the template path is not an existing directory (missing, or a  *)
(* regular file) the run stops in the Input Resolver; the cleaner and the  *)
(* generator run only with a template that is a directory.  (That the stop *)
(* is a failure is left to C2.)                                            *)
(***************************************************************************)
C5_TemplateIsDirectory ==
    \A p \in Procs :
        (pc[p] # "resolve" /\ Len(args[p]) >= 2 /\ fsKind[tap_template[p]] # "dir")
        => /\ StoppedInResolver(p)
           /\ ~Ran(p, "rm")
           /\ ~Ran(p, "cookiecutter")

(***************************************************************************)
(* C6: the cleaner has done its work before the generator starts: an       *)
(* existing output directory is removed by one rm on that path, a missing  *)
(* one causes no removal; the generator never starts with the output       *)
(* directory present, and no file of an earlier run is in the project once *)
(* the generator has run.                                                  *)
(***************************************************************************)
C6_CleanBeforeGenerate ==
    [][\A p \in Procs :
          /\ (pc[p] = "clean" /\ pc'[p] # "clean")
             => IF Generated(p).exists
                THEN /\ Len(log'[p]) = Len(log[p]) + 1
                     /\ log'[p][Len(log'[p])].tool = "rm"
                     /\ log'[p][Len(log'[p])].target = cc_test_output[p]
                     /\ pc'[p] # "done" => ~GeneratedNext(p).exists
                ELSE /\ log'[p] = log[p]
                     /\ proj' = proj
                     /\ pc'[p] # "done"
          /\ pc'[p] = "generate" => ~GeneratedNext(p).exists
          /\ (pc[p] = "generate" /\ GeneratedNext(p).exists)
             => \A f \in GeneratedNext(p).files : f.by # "stale"]_vars

C6_Witness ==
    /\ RanOk(1, "rm")
    /\ RanOk(1, "cookiecutter")
    /\ Generated(1).exists
    /\ pc[1] = "patch"

(***************************************************************************)
(* C7: when no line of the generated manifest declares singer-sdk, the     *)
(* patcher fails: lock, install and the verification tools never run.      *)
(***************************************************************************)
NoDependencyLine(manifest) ==
    /\ manifest # NoFile
    /\ \A i \in 1..Len(manifest) :
          ~\E k \in 1..(Len(manifest[i]) - 1) :
               manifest[i][k] = DepName /\ manifest[i][k + 1] = DepAssign

C7_MissingLineFailsPatch ==
    \A p \in Procs :
        (Ran(p, "pythonsed") /\ Generated(p).exists
           /\ NoDependencyLine(Generated(p).manifest))
        => /\ pc[p] = "done"
           /\ Failed(p)
           /\ result[p].at = "patch"
           /\ ~Ran(p, "poetry lock")
           /\ ~Ran(p, "poetry install")
           /\ ToolsRun(p) = <<>>

(***************************************************************************)
(* C8: the aggregate lint runs exactly when the four tools succeeded and   *)
(* the third argument is omitted or is the integer 1; it starts after      *)
(* mypy, and its non-zero exit fails the run.                              *)
(***************************************************************************)
FlagOmittedOrOne(p) ==
    \/ Len(posargs[p]) < 3
    \/ posargs[p][3] \in {<<"1">>, <<" ", "1">>}

FourToolsSucceeded(p) == \A t \in {"black", "isort", "flake8", "mypy"} : RanOk(p, t)

C8_AggregateLintIff ==
    \A p \in Procs :
        /\ Ran(p, "tox lint")
           => /\ FourToolsSucceeded(p)
              /\ FlagOmittedOrOne(p)
              /\ log[p][Len(log[p])].tool = "tox lint"
              /\ log[p][Len(log[p]) - 1].tool = "mypy"
              /\ pc[p] = "done"
              /\ Failed(p) <=> log[p][Len(log[p])].status # 0
        /\ (pc[p] = "done" /\ FourToolsSucceeded(p) /\ FlagOmittedOrOne(p))
           => Ran(p, "tox lint")

C8_Witness ==
    /\ Len(posargs[1]) >= 3
    /\ Ran(1, "tox lint")
    /\ Failed(1)

C8_WitnessSkipped ==
    /\ Len(posargs[1]) >= 3
    /\ posargs[1][3] = <<"0">>
    /\ FourToolsSucceeded(1)
    /\ pc[1] = "done"

(***************************************************************************)
(* C9: when no child of the generated project has a name starting with tap *)
(* or target, the run fails after the install step without starting any    *)
(* verification tool.                                                      *)
(***************************************************************************)
C9_NoLibraryNoTools ==
    \A p \in Procs :
        (RanOk(p, "poetry install") /\ Generated(p).exists /\ LibraryChildren(p) = {})
        => /\ ToolsRun(p) = <<>>
           /\ pc[p] \in {"discover", "black", "done"}
           /\ pc[p] = "done"
              => /\ Failed(p)
                 /\ result[p].at = "black"
                 /\ result[p].error = "UnboundLocalError"

C9_Witness ==
    /\ RanOk(1, "poetry install")
    /\ LibraryChildren(1) = {}
    /\ result[1].error = "UnboundLocalError"

(***************************************************************************)
(* C10: a verification tool is started only when exactly one child of the  *)
(* generated project matches, and on that child.                           *)
(***************************************************************************)
C10_ExactlyOneLibrary ==
    \A p \in Procs :
        (ToolsRun(p) # <<>> /\ Generated(p).exists)
        => /\ Cardinality(LibraryChildren(p)) = 1
           /\ \A i \in 1..Len(log[p]) :
                 log[p][i].tool \in {"black", "isort", "flake8", "mypy"}
                 => log[p][i].target \in LibraryChildren(p)

(***************************************************************************)
(* C11: OutputName is the replay file's base name without its trailing     *)
(* .json, every other character kept, and GeneratedProject is              *)
(* BuildRoot/OutputName; tap-rest-api_key-github.json gives                *)
(* /tmp/tap-rest-api_key-github.                                           *)
(***************************************************************************)
\* The name without a trailing ".json".
WithoutJsonSuffix(name) ==
    IF Len(name) >= 5 /\ SubSeq(name, Len(name) - 4, Len(name)) = <<".", "j", "s", "o", "n">>
    THEN SubSeq(name, 1, Len(name) - 5)
    ELSE name

\* The part of a path after its last "/".
LastComponent(path) ==
    LET k == CHOOSE i \in 0..Len(path) :
                /\ i = 0 \/ path[i] = "/"
                /\ \A j \in (i + 1)..Len(path) : path[j] # "/"
    IN  SubSeq(path, k + 1, Len(path))

\* "/tmp/tap-rest-api_key-github"
TapGithubOutput ==
    <<"/", "t", "m", "p", "/", "t", "a", "p", "-", "r", "e", "s", "t", "-", "a", "p", "i", "_", "k", "e", "y", "-", "g", "i", "t", "h", "u", "b">>

C11_OutputNameStripsSuffix ==
    \A p \in Procs :
        cc_test_output[p] # Unbound
        => /\ cc_test_output[p] =
                 <<"/", "t", "m", "p", "/">> \o WithoutJsonSuffix(LastComponent(args[p][2]))
           /\ posargs[p] = <<>> => cc_test_output[p] = TapGithubOutput

(***************************************************************************)
(* C18: every path the cleaner hands to rm is a proper child of BuildRoot: *)
(* BuildRoot, a slash and a non-empty name that is neither "." nor "..".   *)
(***************************************************************************)
ProperChildOfBuildRoot(path) ==
    /\ Len(path) > 5
    /\ SubSeq(path, 1, 5) = <<"/", "t", "m", "p", "/">>
    /\ LET name == SubSeq(path, 6, Len(path))
       IN  /\ \A i \in 1..Len(name) : name[i] # "/"
           /\ name \notin {<<".">>, <<".", ".">>}

C18_CleanerStaysBelowBuildRoot ==
    \A p \in Procs :
        \A i \in 1..Len(log[p]) :
            log[p][i].tool = "rm" => ProperChildOfBuildRoot(log[p][i].target)

(***************************************************************************)
(* C19: do_something derives the same output path as test_cookiecutter     *)
(* does for the same replay file.                                          *)
(***************************************************************************)
C19_SameOutputPath ==
    \A p \in Procs :
        (cc_test_output[p] # Unbound /\ e2e_output[p] \notin {Unbound, InputIsWrong})
        => e2e_output[p] = cc_test_output[p]

(***************************************************************************)
(* C13: the subprocesses of a run start in the order of the source, each   *)
(* after the previous one exited with status 0, none twice; the manifest   *)
(* is rewritten only after a successful rendering, install runs only after *)
(* a successful lock, discovery and the tools only after a successful      *)
(* install.                                                                *)
(***************************************************************************)
PipelineOrder ==
    <<"install .", "install cookiecutter pythonsed", "cookiecutter", "pythonsed",
      "poetry lock", "poetry install", "black", "isort", "flake8", "mypy", "tox lint">>

LogTools(p) == [i \in 1..Len(log[p]) |-> log[p][i].tool]

C13_StagesInOrder ==
    \A p \in Procs :
        /\ LET t == LogTools(p)
               body == IF t # <<>> /\ t[1] = "rm" THEN Tail(t) ELSE t
           IN  \E k \in 0..Len(PipelineOrder) : body = SubSeq(PipelineOrder, 1, k)
        /\ \A i \in 1..Len(log[p]) :
              log[p][i].status # 0 => (i = Len(log[p]) /\ pc[p] = "done" /\ Failed(p))
        /\ log[p] # <<>> => pc[p] \notin {"resolve", "clean"}
        /\ Ran(p, "pythonsed") => RanOk(p, "cookiecutter")
        /\ Ran(p, "poetry install") => RanOk(p, "poetry lock")
        /\ (library_name[p] # Unbound \/ ToolsRun(p) # <<>>) => RanOk(p, "poetry install")

C13_Witness ==
    /\ result[1].tool = "poetry lock"
    /\ Failed(1)
    /\ RanOk(1, "pythonsed")
    /\ ~Ran(1, "poetry install")

(***************************************************************************)
(* C15: after a successful patch every manifest line other than the line   *)
(* declaring singer-sdk is as generated, at most one line differs, and the *)
(* declaration line declares the path dependency on the parent of the      *)
(* parent of the template.                                                 *)
(***************************************************************************)
IsDeclaration(line) == Len(line) >= 2 /\ line[1] = "singer-sdk" /\ line[2] = " ="

C15_OnlyDeclarationLineChanges ==
    \A p \in Procs :
        (RanOk(p, "pythonsed") /\ Generated(p).exists /\ Generated(p).bak # NoFile)
        => LET now == Generated(p).manifest
               was == Generated(p).bak
           IN  /\ Len(now) = Len(was)
               /\ \A i \in 1..Len(was) :
                     IF IsDeclaration(was[i])
                     THEN now[i] = <<"singer-sdk", " =", " { path = \"">>
                                   \o dirname(dirname(tap_template[p]))
                                   \o <<"\", develop = true }">>
                     ELSE now[i] = was[i]
               /\ Cardinality({i \in 1..Len(was) : now[i] # was[i]}) <= 1

(***************************************************************************)
(* C16: from the end of the install step to the end of the run no step     *)
(* changes the tree of the generated project.                              *)
(***************************************************************************)
C16_RunnerOnlyReads ==
    [][\A p \in Procs :
          pc[p] \in {"discover", "black", "isort", "flake8", "mypy", "lint"}
          => proj' = proj]_vars

(***************************************************************************)
(* C17 as stated: the working directory keeps its initial value through    *)
(* the resolver, the cleaner, the generator and the patcher (rewrite, lock *)
(* and install), and only the runner changes it.                           *)
(***************************************************************************)
C17_CwdInitialThroughPatcher ==
    \A p \in Procs :
        pc[p] \in {"resolve", "clean", "install_sdk", "install_tools", "generate",
                   "chdir", "patch", "lock", "install"}
        => cwd[p] = InitialCwd

(***************************************************************************)
(* C17 amended: the working directory keeps its initial value through the  *)
(* resolver, the cleaner and the generator; it becomes GeneratedProject    *)
(* right after the generator, before the patcher, and is never restored,   *)
(* whether the run then succeeds or fails; a run that ends before that     *)
(* leaves it unchanged; the patcher and every verification tool run with   *)
(* the working directory equal to GeneratedProject.                        *)
(***************************************************************************)
BeforeChdir == {"resolve", "clean", "install_sdk", "install_tools", "generate", "chdir"}

AfterChdir == {"patch", "lock", "install", "discover", "black", "isort", "flake8", "mypy", "lint"}

C17_CwdChangesAfterGenerator ==
    \A p \in Procs :
        /\ pc[p] \in BeforeChdir => cwd[p] = InitialCwd
        /\ pc[p] \in AfterChdir => cwd[p] = cc_test_output[p]
        /\ pc[p] = "done"
           => cwd[p] = IF result[p].at \in BeforeChdir THEN InitialCwd ELSE cc_test_output[p]
        /\ (Ran(p, "pythonsed") \/ ToolsRun(p) # <<>>) => cwd[p] = cc_test_output[p]

C17_Witness ==
    /\ pc[1] = "done"
    /\ result[1].at = "flake8"
    /\ cwd[1] = cc_test_output[1]
    /\ cwd[1] # InitialCwd

(***************************************************************************)
(* C12: for a template that is a directory and a replay file that is a     *)
(* file, when the second of two invocations in succession with the same    *)
(* arguments has ended, the tree at GeneratedProject is the tree the first *)
(* invocation left.                                                        *)
(***************************************************************************)
C12_SecondRunSameTree ==
    \A p \in Procs :
        (first[p].seen /\ pc[p] = "done") => projAt(OutputOf(p)) = first[p].tree

\* Both invocations went through every stage, the first one finding nothing
\* to remove, the second one after removing the tree of the first.
C12_Witness ==
    /\ first[1].seen
    /\ pc[1] = "done"
    /\ result[1].outcome = "success"
    /\ RanOk(1, "rm")
    /\ RanOk(1, "mypy")
    /\ first[1].tree.exists
    /\ first[1].tree.rewritten # {}
    /\ ~first[1].steps[2].before.exists

(***************************************************************************)
(* C14: nothing keeps two runs with the same OutputName apart.  The tree   *)
(* of a run that has entered GeneratedProject and has not ended goes       *)
(* missing only in a step of the cleaner of another run with the same      *)
(* GeneratedProject, and such a state is reached; as long as no other run  *)
(* has removed anything, as in invocations one after the other, the tree   *)
(* of such a run is there.                                                 *)
(***************************************************************************)
CleanerOfAnotherRun(p) ==
    \E q \in Procs \ {p} :
        /\ pc[q] = "clean"
        /\ pc'[q] = "install_sdk"
        /\ Len(log'[q]) = Len(log[q]) + 1
        /\ cc_test_output[q] = cc_test_output[p]

C14_OnlyAnotherCleanerRemoves ==
    /\ [](\A p \in Procs :
             (pc[p] \in AfterChdir /\ \A q \in Procs \ {p} : ~RanOk(q, "rm"))
             => Generated(p).exists)
    /\ [][\A p \in Procs :
             (pc[p] \in AfterChdir /\ Generated(p).exists
                /\ ~projAtNext(cc_test_output[p]).exists)
             => CleanerOfAnotherRun(p)]_vars

\* Run 1 has generated its project and is about to patch it; the cleaner of
\* run 2, which has not ended, has removed it.
C14_Witness ==
    /\ pc[1] = "patch"
    /\ RanOk(1, "cookiecutter")
    /\ ~Generated(1).exists
    /\ 2 \in Procs
    /\ RanOk(2, "rm")
    /\ pc[2] = "install_sdk"
    /\ cc_test_output[2] = cc_test_output[1]

====
